---- MODULE Spec2Model ----
(***************************************************************************)
(* Model of pebble's BasePool (pebble/pool/base_pool.py): the pool state   *)
(* machine, the task queue and the public calls schedule, close, stop,     *)
(* join and active, called by one caller thread.  _start_pool, _stop_pool  *)
(* and the supervisor loops belong to the ProcessPool subclass and are     *)
(* modelled after the design document.                                     *)
(***************************************************************************)
EXTENDS Integers, Sequences, FiniteSets, TLC

\* Pool states
CREATED == 0
RUNNING == 1
CLOSED == 2
STOPPED == 3
ERROR == 4

\* the clock is counted in units of SLEEP_UNIT
SLEEP_UNIT == 1

\* join(timeout=None)
None == -1

\* Bounds of the model
MaxTasks == 2
MaxWorkers == 1
MaxTimeout == 1
MaxElapsed == 2

Timeouts == {None} \cup (0..MaxTimeout)

\* the two supervisor loops launched by _start_pool
Loops == {"task_loop", "health_loop"}

VARIABLES
    state,             \* PoolContext.state
    task_queue,        \* PoolContext.task_queue: ids of the queued tasks
    unfinished_tasks,  \* Queue.unfinished_tasks
    task_counter,      \* BasePool._task_counter: the next id
    loops,             \* BasePool._loops
    alive_loops,       \* the loops whose is_alive() is true
    workers,           \* the live workers of the worker manager
    tasks,             \* Task objects by id: future state and worker_id
    pc,                \* position of the caller: "idle" or "wait"
    timeout,           \* argument of the join in progress
    elapsed,           \* time.time() - tick of the join in progress
    sched,             \* position of a second thread inside schedule
    last,              \* what the caller's last step did and its outcome
    hist               \* what has happened so far: the number of times
                       \* the pool was started, whether a close() has
                       \* returned, whether a join() after stop() or close()
                       \* has returned without raising, whether a
                       \* supervisor loop has died on its own

vars == <<state, task_queue, unfinished_tasks, task_counter, loops,
          alive_loops, workers, tasks, pc, timeout, elapsed, sched, last,
          hist>>

poolVars == <<state, loops, alive_loops, workers>>
queueVars == <<task_queue, unfinished_tasks, task_counter, tasks>>
joinVars == <<pc, timeout, elapsed>>

\* the ids a worker process can get
WorkerIds == 1..(MaxWorkers + 1)

\* the task timeouts given to schedule: 0 is no timeout, 1 any positive one
TaskTimeouts == {0, 1}

\* a context that allows one worker too many
ContextWorkers_OneMore(max_workers) == max_workers + 1

\* PoolContext.__init__: self.workers = max_workers
ContextWorkers(max_workers) == max_workers

Min(a, b) == IF a < b THEN a ELSE b

\* alive that takes a CLOSED pool for one that is shutting down
Alive_ClosedIsDown(s) == s \notin {ERROR, STOPPED, CLOSED}

\* PoolContext.alive
Alive(s) == s \notin {ERROR, STOPPED}

\* Task.__init__
Task(tmo) == [future |-> "pending", worker_id |-> 0, timeout |-> tmo]

Terminal == {"ok", "err", "timed_out", "process_expired"}

\* The pool as the methods see it
Pool == [state |-> state, loops |-> loops, alive |-> alive_loops,
         workers |-> workers, starts |-> hist.starts]

SetPool(p) ==
    /\ state' = p.state
    /\ loops' = p.loops
    /\ alive_loops' = p.alive
    /\ workers' = p.workers

\* ProcessPool._start_pool: spawns the loops and the workers
StartPool(p) ==
    [p EXCEPT !.state = RUNNING, !.loops = Loops, !.alive = Loops,
              !.workers = 1..ContextWorkers(MaxWorkers), !.starts = Min(p.starts + 1, 2)]

\* ProcessPool._stop_pool: joins the loops and stops every worker
StopPool(p) == [p EXCEPT !.alive = {}, !.workers = {}]

\* _update_pool_state that also starts a pool found STOPPED
UpdatePoolState_Restart(p) ==
    LET q == IF p.state \in {CREATED, STOPPED} THEN StartPool(p) ELSE p
    IN  IF \E l \in q.loops : l \notin q.alive
        THEN [q EXCEPT !.state = ERROR]
        ELSE q

\* _update_pool_state that does not look at the loops
UpdatePoolState_NoLoopCheck(p) ==
    IF p.state = CREATED THEN StartPool(p) ELSE p

\* BasePool._update_pool_state
UpdatePoolState(p) ==
    LET q == IF p.state = CREATED THEN StartPool(p) ELSE p
    IN  IF \E l \in q.loops : l \notin q.alive
        THEN [q EXCEPT !.state = ERROR]
        ELSE q

\* active that counts only RUNNING as active
IsActive_RunningOnly(p) == p.state = RUNNING

\* BasePool.active, after the refresh
IsActive(p) == p.state \in {CLOSED, RUNNING}

\* _check_pool_state that lets a CLOSED pool through
CheckPoolState_ClosedPasses(p) ==
    IF p.state = ERROR THEN "PoolError"
    ELSE IF p.state \notin {RUNNING, CLOSED} THEN "PoolNotActive"
    ELSE "ok"

\* BasePool._check_pool_state, after the refresh
CheckPoolState(p) ==
    IF p.state = ERROR THEN "PoolError"
    ELSE IF p.state # RUNNING THEN "PoolNotActive"
    ELSE "ok"

\* close that only closes a RUNNING pool
ClosePool_OnlyRunning(p) ==
    IF p.state = RUNNING THEN [p EXCEPT !.state = CLOSED] ELSE p

\* BasePool.close
ClosePool(p) == [p EXCEPT !.state = CLOSED]

\* stop that flags an already stopped pool as an error
StopState_Twice(p) ==
    [p EXCEPT !.state = IF p.state = STOPPED THEN ERROR ELSE STOPPED]

\* BasePool.stop
StopState(p) == [p EXCEPT !.state = STOPPED]

Step(op, result) ==
    [op |-> op, result |-> result, n |-> 1 - last.n,
     again |-> (op = last.op /\ op \in {"close", "stop"})]

Init ==
    /\ state = CREATED
    /\ task_queue = <<>>
    /\ unfinished_tasks = 0
    /\ task_counter = 0
    /\ loops = {}
    /\ alive_loops = {}
    /\ workers = {}
    /\ tasks = <<>>
    /\ pc = "idle"
    /\ timeout = None
    /\ elapsed = 0
    /\ sched = "idle"
    /\ last = [op |-> "init", result |-> "ok", n |-> 0, again |-> FALSE]
    /\ hist = [starts |-> 0, closed |-> FALSE, joined |-> FALSE,
               failed |-> FALSE]

----------------------------------------------------------------------------
\* The calls of the caller thread

\* BasePool.active
active ==
    /\ pc = "idle"
    /\ LET p == UpdatePoolState(Pool) IN
        /\ SetPool(p)
        /\ hist' = [hist EXCEPT !.starts = p.starts]
        /\ last' = Step("active", IF IsActive(p) THEN "true" ELSE "false")
    /\ UNCHANGED <<queueVars, joinVars>>
    /\ UNCHANGED sched

\* BasePool.close
close ==
    /\ pc = "idle"
    /\ SetPool(ClosePool(Pool))
    /\ hist' = [hist EXCEPT !.closed = TRUE]
    /\ last' = Step("close", "ok")
    /\ UNCHANGED <<queueVars, joinVars>>
    /\ UNCHANGED sched

\* BasePool.stop
stop ==
    /\ pc = "idle"
    /\ SetPool(StopState(Pool))
    /\ last' = Step("stop", "ok")
    /\ UNCHANGED <<queueVars, joinVars, hist>>
    /\ UNCHANGED sched

\* put that adds the task at the front of the queue
Put_Front(q, t) == <<t>> \o q

\* Queue.put, called by BasePool.schedule
Put(q, t) == Append(q, t)

\* BasePool.schedule
schedule(tmo) ==
    /\ pc = "idle"
    /\ LET p == UpdatePoolState(Pool)
           check == CheckPoolState(p)
       IN
        /\ SetPool(p)
        /\ hist' = [hist EXCEPT !.starts = p.starts]
        /\ IF check # "ok"
           THEN /\ last' = Step("schedule", check)
                /\ UNCHANGED queueVars
           ELSE /\ task_counter < MaxTasks
                /\ tasks' = [t \in 0..task_counter |->
                                IF t = task_counter THEN Task(tmo) ELSE tasks[t]]
                /\ task_counter' = task_counter + 1
                /\ task_queue' = Put(task_queue, task_counter)
                /\ unfinished_tasks' = unfinished_tasks + 1
                /\ last' = Step("schedule", "future")
    /\ UNCHANGED joinVars
    /\ UNCHANGED sched

\* what join does once the pool is neither RUNNING nor CLOSED: _stop_pool
JoinStopped(p) == StopPool(p)

\* join without the check for RUNNING
JoinBranch_NoRunningCheck(s) ==
    IF s = CLOSED THEN "wait" ELSE "stop_pool"

\* join that also drains the queue of a STOPPED pool
JoinBranch_DrainsStopped(s) ==
    IF s = RUNNING THEN "raise"
    ELSE IF s \in {CLOSED, STOPPED} THEN "wait"
    ELSE "stop_pool"

\* the branch BasePool.join takes
JoinBranch(s) ==
    IF s = RUNNING THEN "raise"
    ELSE IF s = CLOSED THEN "wait"
    ELSE "stop_pool"

\* BasePool.join, up to the entry of _wait_queue_depletion
join(tmo) ==
    /\ pc = "idle"
    /\ IF JoinBranch(state) = "raise"
       THEN /\ last' = Step("join", "PoolStillRunning")
            /\ UNCHANGED <<poolVars, joinVars, hist>>
       ELSE IF JoinBranch(state) = "wait"
       THEN /\ pc' = "wait"
            /\ timeout' = tmo
            /\ elapsed' = 0
            /\ last' = Step("join", "waiting")
            /\ UNCHANGED <<poolVars, hist>>
       ELSE /\ SetPool(JoinStopped(Pool))
            /\ hist' = [hist EXCEPT !.joined = @ \/ state = STOPPED]
            /\ last' = Step("join", "ok")
            /\ UNCHANGED joinVars
    /\ UNCHANGED queueVars
    /\ UNCHANGED sched

\* _wait_queue_depletion that looks at the queue before the deadline
WaitOutcome_QueueFirst(p) ==
    IF IsActive(p)
    THEN IF unfinished_tasks > 0 THEN "sleep"
         ELSE IF timeout # None /\ elapsed > timeout THEN "TimedOut"
         ELSE "return"
    ELSE "return"

\* _wait_queue_depletion that loops 'while True'
WaitOutcome_NoActiveTest(p) ==
    IF timeout # None /\ elapsed > timeout THEN "TimedOut"
    ELSE IF unfinished_tasks > 0 THEN "sleep"
    ELSE "return"

\* one turn of the loop of BasePool._wait_queue_depletion; when the loop is
\* left without raising, join goes on with stop() and join()
WaitOutcome(p) ==
    IF IsActive(p)
    THEN IF timeout # None /\ elapsed > timeout THEN "TimedOut"
         ELSE IF unfinished_tasks > 0 THEN "sleep"
         ELSE "return"
    ELSE "return"

wait_queue_depletion ==
    /\ pc = "wait"
    /\ LET p == UpdatePoolState(Pool)
           outcome == WaitOutcome(p)
       IN
        CASE outcome = "TimedOut" ->
                /\ SetPool(p)
                /\ pc' = "idle"
                /\ timeout' = None
                /\ elapsed' = 0
                /\ last' = Step("join", "TimedOut")
                /\ UNCHANGED hist
          [] outcome = "sleep" ->
                /\ SetPool(p)
                /\ elapsed' = Min(elapsed + SLEEP_UNIT, MaxElapsed)
                /\ last' = Step("join", "waiting")
                /\ UNCHANGED <<pc, timeout, hist>>
          [] outcome = "return" ->
                /\ SetPool(JoinStopped(StopState(p)))
                /\ pc' = "idle"
                /\ timeout' = None
                /\ elapsed' = 0
                /\ hist' = [hist EXCEPT !.joined = TRUE]
                /\ last' = Step("join", "ok")
    /\ UNCHANGED queueVars
    /\ UNCHANGED sched

----------------------------------------------------------------------------
\* The supervisor loops, the workers and the clock

busy == {tasks[t].worker_id : t \in {u \in DOMAIN tasks : tasks[u].future = "running"}}

\* a task whose future got its outcome: the Task object is destroyed, the
\* future stays
Resolved(outcome) == [future |-> outcome, worker_id |-> 0, timeout |-> 0]

\* dispatch loop: the head of the queue goes to an idle worker
dispatch ==
    /\ "task_loop" \in alive_loops
    /\ Alive(state)
    /\ task_queue # <<>>
    /\ \E w \in workers \ busy :
        /\ \A v \in workers \ busy : w <= v
        /\ tasks' = [tasks EXCEPT ![Head(task_queue)] =
                        [@ EXCEPT !.future = "running", !.worker_id = w]]
    /\ task_queue' = Tail(task_queue)
    /\ UNCHANGED <<poolVars, unfinished_tasks, task_counter, joinVars, last, hist>>
    /\ UNCHANGED sched

\* result loop: the result of a running task resolves its future
task_done(t, outcome) ==
    /\ "task_loop" \in alive_loops
    /\ Alive(state)
    /\ tasks[t].future = "running"
    /\ tasks[t].worker_id \in workers
    /\ tasks' = [tasks EXCEPT ![t] = Resolved(outcome)]
    /\ unfinished_tasks' = unfinished_tasks - 1
    /\ UNCHANGED <<poolVars, task_queue, task_counter, joinVars, last, hist>>
    /\ UNCHANGED sched

\* health loop, inspect(): a dead worker is removed, its task expires
inspect(w) ==
    /\ "health_loop" \in alive_loops
    /\ Alive(state)
    /\ w \in workers
    /\ workers' = workers \ {w}
    /\ LET mine == {t \in DOMAIN tasks :
                        tasks[t].future = "running" /\ tasks[t].worker_id = w}
       IN /\ tasks' = [t \in DOMAIN tasks |->
                        IF t \in mine
                        THEN Resolved("process_expired")
                        ELSE tasks[t]]
          /\ unfinished_tasks' = unfinished_tasks - Cardinality(mine)
    /\ UNCHANGED <<state, loops, alive_loops, task_queue, task_counter,
                   joinVars, last, hist>>
    /\ UNCHANGED sched

\* timeout loop: a task that ran longer than its timeout is failed with
\* TimedOut and its worker is killed
task_timeout(t) ==
    /\ "health_loop" \in alive_loops
    /\ Alive(state)
    /\ tasks[t].future = "running"
    /\ tasks[t].timeout > 0
    /\ tasks' = [tasks EXCEPT ![t] = Resolved("timed_out")]
    /\ workers' = workers \ {tasks[t].worker_id}
    /\ unfinished_tasks' = unfinished_tasks - 1
    /\ UNCHANGED <<state, loops, alive_loops, task_queue, task_counter,
                   joinVars, last, hist>>
    /\ UNCHANGED sched

\* health loop, ensure_workers(): a missing worker is spawned
ensure_workers ==
    /\ "health_loop" \in alive_loops
    /\ Alive(state)
    /\ Cardinality(workers) < ContextWorkers(MaxWorkers)
    /\ \E w \in WorkerIds \ workers :
        /\ \A v \in WorkerIds \ workers : w <= v
        /\ workers' = workers \cup {w}
    /\ UNCHANGED <<state, loops, alive_loops, queueVars, joinVars, last, hist>>
    /\ UNCHANGED sched

\* a supervisor loop thread ends
loop_dies(l) ==
    /\ l \in alive_loops
    /\ alive_loops' = alive_loops \ {l}
    /\ hist' = [hist EXCEPT !.failed = TRUE]
    /\ UNCHANGED <<state, loops, workers, queueVars, joinVars, last>>
    /\ UNCHANGED sched

\* time passes while join waits
tick ==
    /\ pc = "wait"
    /\ elapsed < MaxElapsed
    /\ elapsed' = elapsed + 1
    /\ UNCHANGED <<poolVars, queueVars, pc, timeout, last, hist>>
    /\ UNCHANGED sched

Next ==
    \/ active
    \/ close
    \/ stop
    \/ \E tmo \in TaskTimeouts : schedule(tmo)
    \/ \E tmo \in Timeouts : join(tmo)
    \/ wait_queue_depletion
    \/ dispatch
    \/ \E t \in DOMAIN tasks : \E outcome \in {"ok", "err"} : task_done(t, outcome)
    \/ \E w \in WorkerIds : inspect(w)
    \/ \E t \in DOMAIN tasks : task_timeout(t)
    \/ ensure_workers
    \/ \E l \in Loops : loop_dies(l)
    \/ tick

Spec == Init /\ [][Next]_vars

TypeOK ==
    /\ state \in {CREATED, RUNNING, CLOSED, STOPPED, ERROR}
    /\ unfinished_tasks \in 0..MaxTasks
    /\ task_counter \in 0..MaxTasks
    /\ loops \subseteq Loops
    /\ alive_loops \subseteq loops
    /\ workers \subseteq WorkerIds
    /\ pc \in {"idle", "wait"}
    /\ sched \in {"idle", "start", "loops", "put"}
    /\ timeout \in Timeouts
    /\ elapsed \in 0..MaxElapsed

----------------------------------------------------------------------------
\* A second thread that calls schedule while the caller thread makes its
\* calls: its steps are its reads and writes of the state of the pool

\* _update_pool_state reads the state: 'if self._context.state == CREATED'
sched_begin ==
    /\ sched = "idle"
    /\ task_counter < MaxTasks
    /\ sched' = IF state = CREATED THEN "start" ELSE "loops"
    /\ UNCHANGED <<poolVars, queueVars, joinVars, last, hist>>

\* _update_pool_state calls _start_pool
sched_start ==
    /\ sched = "start"
    /\ LET p == StartPool(Pool) IN
        /\ SetPool(p)
        /\ hist' = [hist EXCEPT !.starts = p.starts]
    /\ sched' = "loops"
    /\ UNCHANGED <<queueVars, joinVars, last>>

\* _update_pool_state looks at the loops, _check_pool_state at the state
sched_check ==
    /\ sched = "loops"
    /\ LET p == IF \E l \in loops : l \notin alive_loops
                THEN [Pool EXCEPT !.state = ERROR]
                ELSE Pool
       IN
        /\ SetPool(p)
        /\ sched' = IF CheckPoolState(p) = "ok" THEN "put" ELSE "idle"
    /\ UNCHANGED <<queueVars, joinVars, last, hist>>

\* schedule makes the Task and puts it on the queue
sched_put ==
    /\ sched = "put"
    /\ task_counter < MaxTasks
    /\ tasks' = [t \in 0..task_counter |->
                    IF t = task_counter THEN Task(0) ELSE tasks[t]]
    /\ task_counter' = task_counter + 1
    /\ task_queue' = Put(task_queue, task_counter)
    /\ unfinished_tasks' = unfinished_tasks + 1
    /\ sched' = "idle"
    /\ UNCHANGED <<poolVars, joinVars, last, hist>>

ConcNext ==
    \/ Next
    \/ sched_begin
    \/ sched_start
    \/ sched_check
    \/ sched_put

ConcSpec == Init /\ [][ConcNext]_vars

\* the run of task t on its worker ends while both supervisor loops work: the
\* worker returns or raises, dies, or is killed when the timeout has passed
task_end(t) ==
    /\ t \in DOMAIN tasks
    /\ alive_loops = Loops
    /\ tasks[t].future = "running"
    /\ \/ \E outcome \in {"ok", "err"} : task_done(t, outcome)
       \/ inspect(tasks[t].worker_id)
       \/ task_timeout(t)

\* The caller thread keeps running while it is inside join, and the run of a
\* dispatched task comes to an end as long as the supervisor loops work.
FairSpec ==
    /\ Spec
    /\ WF_vars(wait_queue_depletion)
    /\ \A t \in 0..(MaxTasks - 1) : WF_vars(task_end(t))

----------------------------------------------------------------------------
\* The properties of the pool

\* the caller's step op has just been taken
IsStep(op) == last'.n # last.n /\ last'.op = op

Rejected == {"PoolError", "PoolNotActive"}

AllTerminal == \A t \in DOMAIN tasks : tasks[t].future \in Terminal

\* the pool state a refresh leaves
Refreshed ==
    IF state = CREATED THEN RUNNING
    ELSE IF \E l \in loops : l \notin alive_loops THEN ERROR
    ELSE state

\* the steps allowed by C1
C1_Step ==
    IsStep("schedule") =>
     /\ state' = Refreshed
     /\ (last'.result = "future") <=> (state' = RUNNING)
     /\ last'.result = "future" =>
         /\ task_queue' = Append(task_queue, task_counter)
         /\ task_counter' = task_counter + 1
         /\ unfinished_tasks' = unfinished_tasks + 1
     /\ last'.result # "future" =>
         /\ last'.result \in Rejected
         /\ state' \in {CLOSED, STOPPED, ERROR}
         /\ task_queue' = task_queue
         /\ task_counter' = task_counter
         /\ unfinished_tasks' = unfinished_tasks

\* C1: a schedule call enqueues a task and returns a Future exactly when the
\* pool state after the refresh at the start of the call is RUNNING; in
\* CLOSED, STOPPED and ERROR it raises, the task queue is unchanged and no
\* task id is consumed.
C1_ScheduleOnlyWhenRunning == [][C1_Step]_vars

C1_Witness ==
    /\ last.op = "schedule"
    /\ last.result = "PoolNotActive"
    /\ state = CLOSED
    /\ task_counter > 0

\* the steps allowed by C2
C2_Step ==
    state \in {STOPPED, ERROR} => state' = state

\* C2: STOPPED and ERROR are terminal: once the pool state is STOPPED or
\* ERROR, no later call changes it.
C2_TerminalStatesStay == [][C2_Step]_vars

\* the steps allowed by C3
C3_Step ==
    (pc = "wait" /\ IsStep("join") /\ last'.result = "ok") =>
     (unfinished_tasks' = 0 /\ AllTerminal')

\* C3: when a join() that follows close() returns without raising, the queue
\* has no unfinished task and every enqueued task has a terminal future,
\* whatever happens to the supervisor loops while draining.
C3_CloseJoinDrains == [][C3_Step]_vars

\* C4: once a join() reached by stop(); join() or by close(); join() has
\* returned without raising, the worker set is empty and every later active
\* query returns false.
C4_JoinedPoolInactive ==
    hist.joined =>
        /\ workers = {}
        /\ last.op = "active" => last.result = "false"

\* the steps allowed by C5
C5_Step ==
    (IsStep("join") /\ state = RUNNING) =>
     /\ last'.result = "PoolStillRunning"
     /\ state' = RUNNING
     /\ pc' = "idle"
     /\ UNCHANGED <<task_queue, unfinished_tasks, task_counter, tasks,
                    loops, alive_loops, workers, hist>>

\* C5: join() called while the pool is RUNNING raises the still-running error
\* and changes nothing: state, task queue, loops and workers stay as they are.
C5_JoinRunningRaises == [][C5_Step]_vars

C5_Witness ==
    /\ last.op = "join"
    /\ last.result = "PoolStillRunning"
    /\ state = RUNNING
    /\ unfinished_tasks > 0

\* the steps allowed by C6
C6_Step ==
    /\ (/\ pc = "wait"
        /\ IsStep("join")
        /\ Refreshed = CLOSED
        /\ timeout # None
        /\ elapsed > timeout
        /\ unfinished_tasks > 0) =>
         /\ last'.result = "TimedOut"
         /\ state' = CLOSED
         /\ pc' = "idle"
         /\ UNCHANGED <<task_queue, unfinished_tasks, task_counter, tasks,
                        loops, alive_loops, workers>>
    /\ (IsStep("join") /\ pc = "idle" /\ state = STOPPED) =>
         /\ last'.result = "ok"
         /\ state' = STOPPED

C7_Step ==
    (IsStep("schedule") /\ hist.closed) =>
     /\ last'.result \in Rejected
     /\ UNCHANGED <<task_queue, unfinished_tasks, task_counter, tasks>>

\* C7: every schedule call that starts after a close() call has returned
\* raises and enqueues nothing, whatever calls came in between.
C7_CloseRejectsLaterSchedules == [][C7_Step]_vars

C7_Witness ==
    /\ hist.closed
    /\ hist.joined
    /\ last.op = "schedule"
    /\ last.result \in Rejected

\* the steps allowed by C8
C8_Step ==
    /\ hist'.starts # hist.starts =>
         /\ IsStep("schedule") \/ IsStep("active")
         /\ state = CREATED
         /\ state' = RUNNING
         /\ loops' = Loops
         /\ alive_loops' = Loops
         /\ workers' = 1..MaxWorkers
         /\ hist'.starts = 1
    /\ ((IsStep("schedule") \/ IsStep("active")) /\ state = CREATED) =>
         hist'.starts = hist.starts + 1
    /\ (state' = RUNNING /\ state # RUNNING) =>
         hist'.starts # hist.starts

\* C8: a CREATED pool is started (RUNNING, loops and workers spawned) by the
\* first schedule call or active query and by nothing else; close, stop and
\* join never start it and the pool is started at most once.
C8_StartedOnceByFirstUse == [][C8_Step]_vars

C8_Witness ==
    /\ hist.starts = 1
    /\ hist.closed
    /\ hist.joined
    /\ last.op = "active"

\* the steps allowed by C9
C9_Step ==
    IsStep("active") =>
     /\ state' = Refreshed
     /\ (last'.result = "true") <=> (state' \in {RUNNING, CLOSED})
     /\ last'.result \in {"true", "false"}

\* C9: the active query returns true if and only if the pool state after the
\* refresh (start when CREATED, ERROR when a supervisor loop is dead) is
\* RUNNING or CLOSED.
C9_ActiveIffRunningOrClosed == [][C9_Step]_vars

C9_Witness ==
    /\ last.op = "active"
    /\ last.result = "true"
    /\ state = CLOSED

\* the steps allowed by C10
C10_Step ==
    /\ (IsStep("close") /\ last.op = "close") =>
         /\ state' = state
         /\ UNCHANGED <<task_queue, unfinished_tasks, task_counter, tasks>>
    /\ (IsStep("stop") /\ last.op = "stop") =>
         /\ state' = state
         /\ UNCHANGED <<task_queue, unfinished_tasks, task_counter, tasks>>

\* C10: close() and stop() are idempotent: a close() that follows a close()
\* leaves the pool state and the task queue as the first one left them, and
\* likewise for stop().
C10_CloseStopIdempotent == [][C10_Step]_vars

C10_Witness ==
    /\ last.op = "stop"
    /\ last.again
    /\ state = STOPPED
    /\ unfinished_tasks > 0

\* some supervisor loop that was launched is not alive
LoopDead == \E l \in loops : l \notin alive_loops

\* the steps allowed by C11
C11_Step ==
    (IsStep("join") /\ pc = "idle" /\ state \in {STOPPED, ERROR}) =>
        /\ last'.result = "ok"
        /\ pc' = "idle"
        /\ state' = state
        /\ UNCHANGED <<task_queue, unfinished_tasks, task_counter, tasks>>

\* C11: join() on a pool in STOPPED or ERROR returns at once: it does not wait
\* for the queue to drain even with unfinished tasks, does not raise and
\* leaves the pool state as it is; the queued tasks stay not done.
C11_JoinTerminalReturns == [][C11_Step]_vars

C11_Witness ==
    /\ last.op = "join"
    /\ last.result = "ok"
    /\ state = ERROR
    /\ task_queue # <<>>
    /\ unfinished_tasks > 0

\* the steps allowed by C12
C12_Step ==
    /\ ((IsStep("schedule") \/ IsStep("active"))
            /\ LoopDead /\ state \in {CREATED, RUNNING, CLOSED}) =>
        /\ state' = ERROR
        /\ IsStep("schedule") => last'.result = "PoolError"
        /\ IsStep("active") => last'.result = "false"
    /\ (IsStep("schedule") /\ LoopDead) =>
        /\ last'.result \in Rejected
        /\ UNCHANGED <<task_queue, unfinished_tasks, task_counter, tasks>>
    /\ LoopDead => LoopDead'

\* C12: when a supervisor loop has died while the pool is in a non-terminal
\* state, the next schedule call or active query moves the pool to ERROR, and
\* every schedule call from then on raises and enqueues nothing.
C12_LoopDeathGivesError == [][C12_Step]_vars

C12_Witness ==
    /\ last.op = "schedule"
    /\ last.result = "PoolError"
    /\ state = ERROR
    /\ hist.closed = FALSE
    /\ unfinished_tasks > 0

\* the steps allowed by C13
C13_Step ==
    IsStep("schedule") =>
        /\ last'.result = "PoolError" => hist.failed
        /\ (~hist.failed /\ state \in {CLOSED, STOPPED}) =>
                last'.result = "PoolNotActive"

\* C13: a rejected schedule raises the pool-error kind only when the pool
\* reached ERROR through a failure of its own (a supervisor loop that died)
\* and the not-active kind when the caller closed or stopped the pool, as
\* after stop(); join().
C13_ErrorKindMatchesCause == [][C13_Step]_vars

\* C14: the accepted tasks have the ids 0, 1, 2, ... in submission order, the
\* task queue holds the tasks not yet dispatched in increasing id order, and
\* every dispatched task was submitted before every task still queued.
C14_SubmissionOrderKept ==
    /\ DOMAIN tasks = 0..(task_counter - 1)
    /\ \A i \in 1..Len(task_queue) :
        /\ task_queue[i] \in DOMAIN tasks
        /\ tasks[task_queue[i]].future = "pending"
        /\ \A j \in 1..Len(task_queue) : i < j => task_queue[i] < task_queue[j]
        /\ \A t \in DOMAIN tasks :
            tasks[t].future # "pending" => t < task_queue[i]

C14_Witness ==
    /\ task_counter = MaxTasks
    /\ task_queue # <<>>
    /\ \E t \in DOMAIN tasks : tasks[t].future # "pending"

C20_Step ==
    (IsStep("join") /\ last'.result = "TimedOut") => unfinished_tasks > 0

\* C20: join(timeout) on a CLOSED pool whose task queue has no unfinished
\* task never raises TimedOut, whatever the timeout (0 included): TimedOut is
\* raised only when tasks are still being executed.
C20_TimedOutOnlyWithUnfinished == [][C20_Step]_vars

TaskIds == 0..(MaxTasks - 1)

IsRunning(t) == t \in DOMAIN tasks /\ tasks[t].future = "running"

IsResolved(t) == t \in DOMAIN tasks /\ tasks[t].future \in Terminal

\* the steps allowed by C15: an outcome is set on a running task and is
\* never changed
C15_Step ==
    \A t \in DOMAIN tasks :
        /\ t \in DOMAIN tasks'
        /\ tasks[t].future \in Terminal => tasks'[t].future = tasks[t].future
        /\ tasks'[t].future # tasks[t].future =>
            \/ tasks[t].future = "pending" /\ tasks'[t].future = "running"
            \/ tasks[t].future = "running" /\ tasks'[t].future \in Terminal

C17_JoinReturns ==
    (pc = "wait" /\ timeout = None /\ (unfinished_tasks = 0 \/ LoopDead))
        ~> (pc = "idle")

C17_Witness ==
    /\ pc = "wait"
    /\ timeout = None
    /\ unfinished_tasks = 0
    /\ IsResolved(0)

\* the steps allowed by C18
C18_Step ==
    Len(task_queue') > Len(task_queue) => state' = RUNNING

\* C18: when schedule runs on another thread than close() and stop(), no task
\* is put on the task queue after the pool state has left RUNNING.
C18_NoPutAfterRunning == [][C18_Step]_vars

\* C19: when two threads make the first schedule or active call on a CREATED
\* pool at the same time, _start_pool is entered once only.
C19_StartedOnceByThreads == hist.starts <= 1
====
